---- MODULE Spec2Model ----
(***************************************************************************)
(* Model of the NYC street-cleaning core: backend/parser.py (sign          *)
(* description -> CleaningSchedule | None) and backend/scheduler.py        *)
(* (CleaningSchedule x reference instant -> hours until next cleaning).     *)
(* Both are pure functions; each specification draws the inputs in Init     *)
(* and applies the function in one action.                                  *)
(***************************************************************************)
EXTENDS Integers, Sequences, FiniteSets, TLC

VARIABLES
    schedule,       \* scheduler: the CleaningSchedule argument
    now_weekday,    \* scheduler: now.weekday(), 0 = Monday .. 6 = Sunday
    now_hour,       \* scheduler: now.hour
    now_minute,     \* scheduler: now.minute
    hours,          \* scheduler: the returned float, as minutes/60.0 or inf
    spc,            \* scheduler: "call" before the call, "done" after it
    words,          \* parser: the pieces the description is written from
    desc,           \* parser: the description, a sequence of characters
    outcome,        \* parser: the returned CleaningSchedule or None
    ppc             \* parser: "call" before the call, "done" after it

vars == <<schedule, now_weekday, now_hour, now_minute, hours, spc,
          words, desc, outcome, ppc>>
schedVars == <<schedule, now_weekday, now_hour, now_minute, hours, spc>>
parseVars == <<words, desc, outcome, ppc>>

(***************************************************************************)
(* Bounds of the model.                                                     *)
(***************************************************************************)
\* Evenly spaced times of day the scheduler inputs are drawn from.
TimeSamples == 6
\* Words of a description after its prefix.
MaxWords == 5
\* Largest hour and minute fields of a generated time token (the pattern
\* \d{1,2} admits hours beyond 12 and \d{2} minutes beyond 59).
MaxHourToken == 13
MaxMinuteToken == 59

(***************************************************************************)
(* backend/scheduler.py                                                     *)
(***************************************************************************)
Weekdays == 0..6

\* Times of day of spec scenarios A-C (07:00, 08:00, 09:30, 11:00, 12:00)
\* and the two ends of the day, always among the inputs.
ScenarioTimes == {0, 420, 480, 570, 660, 720, 1439}

TimesOfDay ==
    ScenarioTimes \cup {(i * 1440) \div TimeSamples : i \in 0..(TimeSamples - 1)}

\* A float result: inf, or minutes / 60.0, kept as the integer minutes the
\* code divides.  Division by 60.0 is monotonic and 10080 / 60.0 = 168.0
\* exactly, so hours are compared on their minutes, and "hours is t minutes"
\* means hours = t / 60.0.
Inf == [inf |-> TRUE, minutes |-> 0]
Hours(minutes) == [inf |-> FALSE, minutes |-> minutes]

CleaningSchedule(days, sh, sm, eh, em) ==
    [days |-> days, start_hour |-> sh, start_minute |-> sm,
     end_hour |-> eh, end_minute |-> em]

\* Variant: range(7), a scan that does not come back to today's weekday.
LoopOffsets_seven == 8 - 1
\* for day_offset in range(8)
LoopOffsets == 8

\* Variant: the window's first minute left out.
InWindow_strict(start_minutes, current_minutes, end_minutes) ==
    start_minutes < current_minutes /\ current_minutes < end_minutes
\* start_minutes <= current_minutes < end_minutes
InWindow(start_minutes, current_minutes, end_minutes) ==
    start_minutes <= current_minutes /\ current_minutes < end_minutes

\* Variant: the minutes already elapsed today not subtracted.
minutes_until_nosub(day_offset, start_minutes, current_minutes) ==
    (day_offset * 24 * 60) + start_minutes
\* minutes_until = (day_offset * 24 * 60) + start_minutes - current_minutes
minutes_until(day_offset, start_minutes, current_minutes) ==
    (day_offset * 24 * 60) + start_minutes - current_minutes

RECURSIVE scan_days(_, _, _, _, _, _)
scan_days(days, current_weekday, current_minutes, start_minutes, end_minutes, day_offset) ==
    IF day_offset >= LoopOffsets THEN Inf
    ELSE LET check_day == (current_weekday + day_offset) % 7
             next == scan_days(days, current_weekday, current_minutes,
                               start_minutes, end_minutes, day_offset + 1)
         IN IF check_day \notin days THEN next
            ELSE IF day_offset = 0
                 THEN IF InWindow(start_minutes, current_minutes, end_minutes)
                      THEN Hours(0)
                      ELSE IF current_minutes < start_minutes
                           THEN Hours(start_minutes - current_minutes)
                           ELSE next
                 ELSE Hours(minutes_until(day_offset, start_minutes, current_minutes))

\* now enters as its weekday(), hour and minute; the time zone set on a naive
\* now changes none of the three.
hours_until_next_cleaning(sched, weekday, hour, minute) ==
    LET current_weekday == weekday
        current_minutes == hour * 60 + minute
        start_minutes == sched.start_hour * 60 + sched.start_minute
        end_minutes == sched.end_hour * 60 + sched.end_minute
    IN scan_days(sched.days, current_weekday, current_minutes,
                 start_minutes, end_minutes, 0)

(***************************************************************************)
(* Strings are sequences of one-character strings; the str and re           *)
(* operations parser.py uses are computed on the characters.                *)
(***************************************************************************)
LowerLetters == <<"a", "b", "c", "d", "e", "f", "g", "h", "i", "j", "k", "l", "m", "n", "o", "p", "q", "r", "s", "t", "u", "v", "w", "x", "y", "z">>
UpperLetters == <<"A", "B", "C", "D", "E", "F", "G", "H", "I", "J", "K", "L", "M", "N", "O", "P", "Q", "R", "S", "T", "U", "V", "W", "X", "Y", "Z">>
Digits == <<"0", "1", "2", "3", "4", "5", "6", "7", "8", "9">>

Range(s) == {s[i] : i \in 1..Len(s)}

\* re: \s, \w and \d on str patterns
SpaceChars == {" ", "\t", "\n", "\r", "\f"}
WordChars == Range(LowerLetters) \cup Range(UpperLetters) \cup Range(Digits) \cup {"_"}
DigitChars == Range(Digits)

\* str.upper()
UpperMap == [c \in Range(LowerLetters) |->
                UpperLetters[CHOOSE i \in 1..26 : LowerLetters[i] = c]]
upper_char(c) == IF c \in DOMAIN UpperMap THEN UpperMap[c] ELSE c
upper(s) == [i \in 1..Len(s) |-> upper_char(s[i])]

\* s[i:i+len(lit)] == lit
MatchAt(s, i, lit) ==
    /\ i >= 1
    /\ i + Len(lit) - 1 <= Len(s)
    /\ \A k \in 1..Len(lit) : s[i + k - 1] = lit[k]

\* the same under re.IGNORECASE, lit in upper case
MatchAtIgnoreCase(s, i, lit) ==
    /\ i >= 1
    /\ i + Len(lit) - 1 <= Len(s)
    /\ \A k \in 1..Len(lit) : upper_char(s[i + k - 1]) = lit[k]

\* sub in s
Contains(s, sub) == \E i \in 1..(Len(s) + 1) : MatchAt(s, i, sub)

\* The first index >= i of s whose character is not in set (Len(s) + 1 when
\* there is none): the end of a greedy run such as \s* or \w+.
RECURSIVE RunEnd(_, _, _)
RunEnd(s, i, set) ==
    IF i > Len(s) \/ s[i] \notin set THEN i ELSE RunEnd(s, i + 1, set)

\* str.strip()
RECURSIVE rstrip(_)
rstrip(s) ==
    IF s # << >> /\ s[Len(s)] \in SpaceChars THEN rstrip(SubSeq(s, 1, Len(s) - 1)) ELSE s
strip(s) == rstrip(SubSeq(s, RunEnd(s, 1, SpaceChars), Len(s)))

\* str.replace(old, ""), old non-empty
RECURSIVE remove_all(_, _, _)
remove_all(s, old, i) ==
    IF i > Len(s) THEN << >>
    ELSE IF MatchAt(s, i, old) THEN remove_all(s, old, i + Len(old))
    ELSE <<s[i]>> \o remove_all(s, old, i + 1)

\* int(s) of a string of decimal digits
DigitMap == [c \in DigitChars |-> (CHOOSE i \in 1..10 : Digits[i] = c) - 1]
DigitValue(c) == DigitMap[c]
RECURSIVE int(_)
int(s) ==
    IF s = << >> THEN 0
    ELSE 10 * int(SubSeq(s, 1, Len(s) - 1)) + DigitValue(s[Len(s)])

MARKER == <<"S", "A", "N", "I", "T", "A", "T", "I", "O", "N", " ", "B", "R", "O", "O", "M", " ", "S", "Y", "M", "B", "O", "L">>
EXCEPT_WORD == <<"E", "X", "C", "E", "P", "T">>

\* DAYS_OF_WEEK, by day number
DAYS_OF_WEEK ==
    [d \in 0..6 |->
        CASE d = 0 -> <<"M", "O", "N", "D", "A", "Y">>
          [] d = 1 -> <<"T", "U", "E", "S", "D", "A", "Y">>
          [] d = 2 -> <<"W", "E", "D", "N", "E", "S", "D", "A", "Y">>
          [] d = 3 -> <<"T", "H", "U", "R", "S", "D", "A", "Y">>
          [] d = 4 -> <<"F", "R", "I", "D", "A", "Y">>
          [] d = 5 -> <<"S", "A", "T", "U", "R", "D", "A", "Y">>
          [] d = 6 -> <<"S", "U", "N", "D", "A", "Y">>]

\* TIME_RE, one token at i: \d{1,2}(?::\d{2})?(?:AM|PM) under re.IGNORECASE.
\* The index after the token, 0 when no token starts at i.  The greedy choices
\* exclude each other (a second digit, a colon and A/P are different
\* characters), so at most one way of matching exists from i.
TimeTokenEnd(s, i) ==
    LET isDigit(k) == k <= Len(s) /\ s[k] \in DigitChars
        afterH == IF isDigit(i) THEN (IF isDigit(i + 1) THEN i + 2 ELSE i + 1) ELSE 0
        afterM == IF afterH = 0 THEN 0
                  ELSE IF afterH <= Len(s) /\ s[afterH] = ":"
                       THEN (IF isDigit(afterH + 1) /\ isDigit(afterH + 2)
                             THEN afterH + 3 ELSE 0)
                       ELSE afterH
    IN IF afterM = 0 THEN 0
       ELSE IF MatchAtIgnoreCase(s, afterM, <<"A", "M">>) \/ MatchAtIgnoreCase(s, afterM, <<"P", "M">>)
            THEN afterM + 2 ELSE 0

\* TIME_RE at i: token \s*-\s* token.  The match's groups, or none.
NoMatch == [found |-> FALSE, group1 |-> << >>, group2 |-> << >>]
TimeMatchAt(s, i) ==
    LET e1 == TimeTokenEnd(s, i)
        dash == RunEnd(s, e1, SpaceChars)
        j == RunEnd(s, dash + 1, SpaceChars)
        e2 == TimeTokenEnd(s, j)
    IN IF e1 = 0 THEN NoMatch
       ELSE IF ~(dash <= Len(s) /\ s[dash] = "-") THEN NoMatch
       ELSE IF e2 = 0 THEN NoMatch
       ELSE [found |-> TRUE, group1 |-> SubSeq(s, i, e1 - 1), group2 |-> SubSeq(s, j, e2 - 1)]

\* TIME_RE.search(s): the leftmost match.  A match starts with a digit.
TIME_RE_search(s) ==
    LET starts == {i \in 1..Len(s) : s[i] \in DigitChars /\ TimeMatchAt(s, i).found}
    IN IF starts = {} THEN NoMatch
       ELSE TimeMatchAt(s, CHOOSE i \in starts : \A j \in starts : i <= j)

\* \b before index p of s
WordBoundary(s, p) ==
    LET isWord(k) == k >= 1 /\ k <= Len(s) /\ s[k] \in WordChars
    IN isWord(p - 1) # isWord(p)

\* DAY_RE.findall(s), as the set of day numbers whose name is matched:
\* \b(MONDAY|...|SUNDAY)\b under re.IGNORECASE.  The names are word
\* characters, so the leading \b holds exactly where a word starts.
DAY_RE_findall(s) ==
    LET starts == {i \in 1..Len(s) : s[i] \in WordChars /\ WordBoundary(s, i)}
    IN {d \in 0..6 : \E i \in starts :
           /\ MatchAtIgnoreCase(s, i, DAYS_OF_WEEK[d])
           /\ WordBoundary(s, i + Len(DAYS_OF_WEEK[d]))}

\* re.sub(r"EXCEPT\s+\w+", "", s): the index after the clause that starts at
\* i, 0 when none starts there.
ExceptClauseEnd(s, i) ==
    IF ~MatchAt(s, i, EXCEPT_WORD) THEN 0
    ELSE LET w == RunEnd(s, i + Len(EXCEPT_WORD), SpaceChars)
             e == RunEnd(s, w, WordChars)
         IN IF w > i + Len(EXCEPT_WORD) /\ e > w THEN e ELSE 0

RECURSIVE sub_except_from(_, _)
sub_except_from(s, i) ==
    IF i > Len(s) THEN << >>
    ELSE LET e == ExceptClauseEnd(s, i)
         IN IF e > 0 THEN sub_except_from(s, e)
            ELSE <<s[i]>> \o sub_except_from(s, i + 1)
sub_except(s) == sub_except_from(s, 1)

\* except_days: the day_name with f"EXCEPT {day_name}" in upper, that is, the
\* names found right after an occurrence of "EXCEPT " (one space)
except_days_of(upper_desc) ==
    LET prefix == EXCEPT_WORD \o <<" ">>
        after == {i + Len(prefix) : i \in {j \in 1..Len(upper_desc) : MatchAt(upper_desc, j, prefix)}}
    IN {d \in 0..6 : \E i \in after : MatchAt(upper_desc, i, DAYS_OF_WEEK[d])}

\* Variant: 12 treated like any other hour.
to_24h_no_noon_rule(h, is_pm) ==
    IF is_pm THEN h + 12 ELSE h
\* if is_pm and h != 12: h += 12 / if not is_pm and h == 12: h = 0
to_24h(h, is_pm) ==
    LET h1 == IF is_pm /\ h # 12 THEN h + 12 ELSE h
    IN IF ~is_pm /\ h1 = 12 THEN 0 ELSE h1

\* A token TIME_RE matched holds one colon at most, so t.split(":") gives the
\* two parts the code unpacks.
_parse_time(t0) ==
    LET t1 == strip(upper(t0))
        is_pm == Len(t1) >= 2 /\ MatchAt(t1, Len(t1) - 1, <<"P", "M">>)
        t == remove_all(remove_all(t1, <<"A", "M">>, 1), <<"P", "M">>, 1)
        has_colon == \E i \in 1..Len(t) : t[i] = ":"
        colon == CHOOSE i \in 1..Len(t) : t[i] = ":" /\ \A j \in 1..(i - 1) : t[j] # ":"
        hs == IF has_colon THEN SubSeq(t, 1, colon - 1) ELSE t
        ms == IF has_colon THEN SubSeq(t, colon + 1, Len(t)) ELSE <<"0">>
    IN <<to_24h(int(hs), is_pm), int(ms)>>

None == [kind |-> "None"]
Parsed(sched) == [kind |-> "CleaningSchedule", schedule |-> sched]

\* Variant: no category gate.
has_marker_ungated(d) == TRUE
\* if "SANITATION BROOM SYMBOL" not in desc.upper(): return None
has_marker(d) == Contains(upper(d), MARKER)

\* Variant: no return when the text names no day.
no_day_information_unchecked(day_matches, except_days) == FALSE
\* if not day_matches and not except_days: return None
no_day_information(day_matches, except_days) ==
    day_matches = {} /\ except_days = {}

\* CleaningSchedule.days is the sorted list of a set: modelled as the set.
parse_sign_description(d) ==
    IF ~has_marker(d) THEN None
    ELSE LET upper_desc == upper(d)
             except_days == except_days_of(upper_desc)
             cleaned == sub_except(upper_desc)
             day_matches == DAY_RE_findall(cleaned)
             days == IF day_matches # {} THEN day_matches \ except_days
                     ELSE (0..6) \ except_days
             time_match == TIME_RE_search(d)
         IN IF no_day_information(day_matches, except_days) THEN None
            ELSE IF ~time_match.found THEN None
            ELSE LET start == _parse_time(time_match.group1)
                     end == _parse_time(time_match.group2)
                 IN Parsed(CleaningSchedule(days, start[1], start[2], end[1], end[2]))

(***************************************************************************)
(* Inputs.  A description is written from words joined by single spaces;   *)
(* the word EXCEPT may carry extra trailing whitespace.  The words are kept *)
(* beside the text so that properties can speak of what the text says.      *)
(***************************************************************************)
NoToken == [h |-> 0, mm |-> -1, pm |-> FALSE, lower |-> FALSE, pad |-> FALSE]
Token(h, mm, pm, lower) == [h |-> h, mm |-> mm, pm |-> pm, lower |-> lower, pad |-> FALSE]

DigitChar(n) == Digits[n + 1]
TwoDigits(n) == <<DigitChar(n \div 10), DigitChar(n % 10)>>

\* H[:MM](AM|PM); mm = -1 when the minutes are absent
TokenText(tok) ==
    (IF tok.h >= 10 \/ tok.pad THEN TwoDigits(tok.h) ELSE <<DigitChar(tok.h)>>)
    \o (IF tok.mm >= 0 THEN <<":">> \o TwoDigits(tok.mm) ELSE << >>)
    \o (IF tok.pm THEN (IF tok.lower THEN <<"p", "m">> ELSE <<"P", "M">>)
                  ELSE (IF tok.lower THEN <<"a", "m">> ELSE <<"A", "M">>))

Word(kind, day, from, to, text) ==
    [kind |-> kind, day |-> day, from |-> from, to |-> to, text |-> text]
OtherWord(text) == Word("other", -1, NoToken, NoToken, text)
\* a word that holds the category marker, in any case
MarkerWord(text) == Word("marker", -1, NoToken, NoToken, text)
DayWord(d, text) == Word("day", d, NoToken, NoToken, text)
\* EXCEPT followed by gap whitespace characters in all (the joining space
\* is the last of them)
ExceptWord(gap) ==
    Word("except", -1, NoToken, NoToken, EXCEPT_WORD \o [i \in 1..(gap - 1) |-> " "])
RangeWord(from, to) ==
    Word("range", -1, from, to, TokenText(from) \o <<"-">> \o TokenText(to))

RECURSIVE Render(_)
Render(ws) ==
    IF ws = << >> THEN << >>
    ELSE IF Len(ws) = 1 THEN ws[1].text
    ELSE ws[1].text \o <<" ">> \o Render(Tail(ws))

Range8to11 == RangeWord(Token(8, -1, FALSE, FALSE), Token(11, -1, FALSE, FALSE))
RangeOvernight == RangeWord(Token(11, 30, TRUE, TRUE), Token(2, -1, FALSE, FALSE))

Prefixes ==
    { <<MarkerWord(MARKER)>>,
      <<MarkerWord(<<"(", "S", "a", "n", "i", "t", "a", "t", "i", "o", "n", " ", "B", "r", "o", "o", "m", " ", "S", "y", "m", "b", "o", "l", ")">>)>>,
      <<OtherWord(<<"N", "O", " ", "P", "A", "R", "K", "I", "N", "G">>)>> }

BodyWords ==
    { DayWord(0, <<"M", "o", "n", "d", "a", "y">>), DayWord(6, <<"S", "U", "N", "D", "A", "Y">>),
      ExceptWord(1), ExceptWord(2), Range8to11, RangeOvernight }

\* A description that varies one time token of its range, the first or the
\* second, over all tokens.
TimeDescription(tok, first) ==
    <<MarkerWord(MARKER), DayWord(0, <<"M", "O", "N", "D", "A", "Y">>),
      IF first THEN RangeWord(tok, Token(11, -1, FALSE, FALSE))
               ELSE RangeWord(Token(8, -1, FALSE, FALSE), tok)>>

(***************************************************************************)
(* Specifications                                                           *)
(***************************************************************************)
InitSched ==
    /\ \E days \in SUBSET Weekdays, s \in TimesOfDay, e \in TimesOfDay :
           schedule = CleaningSchedule(days, s \div 60, s % 60, e \div 60, e % 60)
    /\ now_weekday \in Weekdays
    /\ \E t \in TimesOfDay : now_hour = t \div 60 /\ now_minute = t % 60
    /\ hours = Inf
    /\ spc = "call"
    /\ words = << >> /\ desc = << >> /\ outcome = None /\ ppc = "idle"

\* main.py get_streets: hrs = hours_until_next_cleaning(s["schedule"])
CallScheduler ==
    /\ spc = "call"
    /\ hours' = hours_until_next_cleaning(schedule, now_weekday, now_hour, now_minute)
    /\ spc' = "done"
    /\ UNCHANGED <<schedule, now_weekday, now_hour, now_minute>>
    /\ UNCHANGED parseVars

NextSched == CallScheduler

SpecSched == InitSched /\ [][NextSched]_vars

InitParse ==
    /\ \/ \E p \in Prefixes, n \in 0..MaxWords : \E b \in [1..n -> BodyWords] :
             words = p \o b
       \/ \E h \in 0..MaxHourToken, mm \in -1..MaxMinuteToken,
             pm \in BOOLEAN, lower \in BOOLEAN, pad \in BOOLEAN, first \in BOOLEAN :
             /\ pad => h < 10
             /\ words = TimeDescription([h |-> h, mm |-> mm, pm |-> pm,
                                         lower |-> lower, pad |-> pad], first)
    /\ desc = Render(words)
    /\ outcome = None
    /\ ppc = "call"
    /\ schedule = CleaningSchedule({}, 0, 0, 0, 0)
    /\ now_weekday = 0 /\ now_hour = 0 /\ now_minute = 0
    /\ hours = Inf /\ spc = "idle"

\* main.py _fetch_signs: schedule = parse_sign_description(row.get("sign_description", ""))
CallParser ==
    /\ ppc = "call"
    /\ outcome' = parse_sign_description(desc)
    /\ ppc' = "done"
    /\ UNCHANGED <<words, desc>>
    /\ UNCHANGED schedVars

NextParse == CallParser

SpecParse == InitParse /\ [][NextParse]_vars

(***************************************************************************)
(* What the inputs say, read from the words and from the schedule          *)
(***************************************************************************)
StartMinutes == schedule.start_hour * 60 + schedule.start_minute
EndMinutes == schedule.end_hour * 60 + schedule.end_minute
NowMinutes == now_hour * 60 + now_minute

\* The restriction is in effect at the reference instant.
InEffect ==
    /\ now_weekday \in schedule.days
    /\ StartMinutes <= NowMinutes
    /\ NowMinutes < EndMinutes

\* The instant t minutes after the reference instant: its weekday and minute.
WeekdayAfter(t) == ((now_weekday * 1440 + NowMinutes + t) \div 1440) % 7
MinuteAfter(t) == (now_weekday * 1440 + NowMinutes + t) % 1440

\* The t > 0 within eight days at which an active day's window starts.
\* Instants at minute-of-day StartMinutes are whole days apart.
UpcomingStarts ==
    { t \in { d * 1440 + StartMinutes - NowMinutes : d \in 0..8 } :
        /\ t > 0
        /\ WeekdayAfter(t) \in schedule.days
        /\ MinuteAfter(t) = StartMinutes }

WordIndexes(kind) == { i \in 1..Len(words) : words[i].kind = kind }
FollowsExcept(i) == i > 1 /\ words[i - 1].kind = "except"

\* Weekdays named outside an EXCEPT clause, and weekdays named as the word
\* directly after EXCEPT.
ExplicitDays == { words[i].day : i \in { j \in WordIndexes("day") : ~FollowsExcept(j) } }
ExceptDays == { words[i].day : i \in { j \in WordIndexes("day") : FollowsExcept(j) } }

HasMarkerWord == WordIndexes("marker") # {}
HasRange == WordIndexes("range") # {}
FirstRange ==
    words[CHOOSE i \in WordIndexes("range") : \A j \in WordIndexes("range") : i <= j]

IsSchedule == ppc = "done" /\ outcome.kind = "CleaningSchedule"

\* The 12-hour rule as the specification words it.
Expected24(tok) ==
    CASE ~tok.pm /\ tok.h = 12 -> 0
      [] tok.pm /\ tok.h = 12 -> 12
      [] tok.pm /\ tok.h # 12 -> tok.h + 12
      [] OTHER -> tok.h
ExpectedMinute(tok) == IF tok.mm = -1 THEN 0 ELSE tok.mm
InTwelveHourClock(tok) == tok.h \in 1..12 /\ tok.mm \in -1..59

(***************************************************************************)
(* Claims                                                                   *)
(***************************************************************************)

\* C1: for every schedule with non-empty days, whatever its window start and
\* end, and every reference instant, the result is finite and 0 <= h < 168
\* (minutes below 7 * 1440).
C1_HoursBelow168 ==
    (spc = "done" /\ schedule.days # {}) =>
        (~hours.inf /\ 0 <= hours.minutes /\ hours.minutes < 7 * 1440)

\* C2: when the reference weekday is active and windowStart <= referenceMinute
\* < windowEnd, the result is exactly 0.0, whatever other days are active.
C2_ActiveNowIsZero ==
    (spc = "done" /\ InEffect) => hours = Hours(0)

C2_Witness ==
    /\ spc = "done" /\ InEffect
    /\ schedule.days # {now_weekday}
    /\ NowMinutes = StartMinutes
    /\ hours = Hours(0)

\* C3: an empty days set gives the 'never' sentinel (inf) at every reference
\* instant and for every window, and the sentinel is returned only then.
C3_InfIffNoDays ==
    spc = "done" => (hours.inf <=> schedule.days = {})

C3_Witness ==
    /\ spc = "done" /\ schedule.days = {} /\ hours.inf
    /\ StartMinutes < EndMinutes /\ NowMinutes > StartMinutes

\* C8: with windowStart < windowEnd, non-empty days and the restriction not in
\* effect, hours * 60 is the smallest t > 0 at which reference + t is minute
\* windowStart of an active weekday; with the reference weekday the only active
\* day and referenceMinute >= windowEnd it is 7*1440 + windowStart - referenceMinute.
C8_NextWindowStart ==
    (spc = "done" /\ StartMinutes < EndMinutes /\ schedule.days # {} /\ ~InEffect) =>
        /\ ~hours.inf
        /\ hours.minutes \in UpcomingStarts
        /\ \A t \in UpcomingStarts : hours.minutes <= t
        /\ (schedule.days = {now_weekday} /\ NowMinutes >= EndMinutes) =>
               hours.minutes = 7 * 1440 + StartMinutes - NowMinutes

\* Scenario C: Monday 08:00-11:00 at Monday 12:00 gives 164.0 hours.
C8_Witness ==
    /\ spc = "done"
    /\ schedule = CleaningSchedule({0}, 8, 0, 11, 0)
    /\ now_weekday = 0 /\ now_hour = 12 /\ now_minute = 0
    /\ hours = Hours(164 * 60)

\* C4: a description that parses has days = explicitDays minus exceptDays when
\* a weekday is named outside an EXCEPT clause, all seven weekdays minus
\* exceptDays when weekdays are named only in EXCEPT clauses; an empty result
\* is still a schedule.
C4_DaysResolved ==
    /\ IsSchedule =>
          outcome.schedule.days =
              IF ExplicitDays # {} THEN ExplicitDays \ ExceptDays
              ELSE Weekdays \ ExceptDays
    /\ (ppc = "done" /\ HasMarkerWord /\ HasRange /\ ExplicitDays \cup ExceptDays # {}) =>
          outcome.kind = "CleaningSchedule"

\* C5: every schedule the parser returns has windowStart < windowEnd as
\* minutes since midnight.
C5_WindowStartBeforeEnd ==
    IsSchedule =>
        outcome.schedule.start_hour * 60 + outcome.schedule.start_minute
            < outcome.schedule.end_hour * 60 + outcome.schedule.end_minute

\* C6 as stated: marker, no weekday name and no EXCEPT clause give a failure
\* that differs from the failures for a missing marker and a missing time window.
NoMarkerText == <<"N", "O", " ", "P", "A", "R", "K", "I", "N", "G", " ", "M", "O", "N", "D", "A", "Y", " ", "8", "A", "M", "-", "1", "1", "A", "M">>
NoTimeWindowText == <<"S", "A", "N", "I", "T", "A", "T", "I", "O", "N", " ", "B", "R", "O", "O", "M", " ", "S", "Y", "M", "B", "O", "L", " ", "M", "O", "N", "D", "A", "Y">>
C7_NoMarkerIsNone ==
    (ppc = "done" /\ ~HasMarkerWord) => outcome = None

C7_Witness ==
    /\ ppc = "done" /\ ~HasMarkerWord /\ HasRange
    /\ ExplicitDays # {} /\ ExceptDays # {}
    /\ outcome = None

\* C9: a weekday named only as the word directly after EXCEPT, with any
\* amount of whitespace between, is not in the returned schedule's days.
C9_ExceptedDaysExcluded ==
    IsSchedule => (ExceptDays \ ExplicitDays) \cap outcome.schedule.days = {}

\* C10: a token H[:MM](AM|PM) with H in 1..12 and MM in 00..59 converts to
\* minute MM (0 when absent) and hour 0 for 12 AM, 12 for 12 PM, H + 12 for
\* another PM hour, H for AM hours 1..11, always an hour in 0..23; the window
\* comes from the first time range of the description.
C10_TwelveHourRule ==
    (IsSchedule /\ HasRange) =>
        /\ InTwelveHourClock(FirstRange.from) =>
              /\ outcome.schedule.start_hour = Expected24(FirstRange.from)
              /\ outcome.schedule.start_minute = ExpectedMinute(FirstRange.from)
              /\ outcome.schedule.start_hour \in 0..23
        /\ InTwelveHourClock(FirstRange.to) =>
              /\ outcome.schedule.end_hour = Expected24(FirstRange.to)
              /\ outcome.schedule.end_minute = ExpectedMinute(FirstRange.to)
              /\ outcome.schedule.end_hour \in 0..23

\* Two different ranges, the first 11:30pm-2AM: the window is 23:30 to 02:00.
C10_Witness ==
    /\ IsSchedule
    /\ Cardinality(WordIndexes("range")) = 2
    /\ FirstRange = RangeOvernight
    /\ \E i \in WordIndexes("range") : words[i] = Range8to11
    /\ \E i \in WordIndexes("except") : i + 1 \in WordIndexes("range")
    /\ outcome.schedule.start_hour = 23 /\ outcome.schedule.start_minute = 30
    /\ outcome.schedule.end_hour = 2 /\ outcome.schedule.end_minute = 0

====
